---- MODULE Spec2Model ----
(***************************************************************************)
(* A model of the interval heap of src/src/cmc/intervalheap.h, generated   *)
(* for V = int with the comparator intcmp(a, b) = a - b.                   *)
(*                                                                         *)
(* A heap value is a record                                                *)
(*   buffer   : the node array, a function from 0..(allocated nodes - 1)   *)
(*              to <<data[0], data[1]>>                                    *)
(*   capacity, size, count : the fields of struct SNAME                    *)
(*   oob      : monitor, TRUE once a call accessed a node outside buffer   *)
(*   junk     : what a read outside buffer (or of a node realloc left      *)
(*              uninitialised) yields during the current call; the         *)
(*              actions choose it nondeterministically and store 0         *)
(***************************************************************************)
EXTENDS Integers, Sequences, FiniteSets, TLC

\* ------------------------------------------------------------------ bounds
MaxVal == 2
MaxCount == 4
MaxCapacity == 2
MaxNewCap == 3
MaxResize == 4
MaxSortCount == 13
MaxValidCount == 8
MaxIterCount == 4
MaxCopyCount == 3
MaxAfter == 1
Width == 4

\* ------------------------------------------------------- program constants
Zero == 0

\* The elements the calls of the main and sorting specifications pass, the
\* elements of the single-call specification (one more), and what
\* uninitialised or foreign memory may hold.
Values == 1..MaxVal
AllValues == 1..(MaxVal + 1)
Garbage == 0..MaxVal

cmp(a, b) == a - b

\* ------------------------------------------------------------ node access
Rd(h, i, j) ==
    IF i \in DOMAIN h.buffer THEN h.buffer[i][j + 1] ELSE h.junk

Wr(h, i, j, v) ==
    IF i \in DOMAIN h.buffer
    THEN [h EXCEPT !.buffer[i][j + 1] = v]
    ELSE [h EXCEPT !.oob = TRUE]

Touch(h, i) ==
    IF i \in DOMAIN h.buffer THEN h ELSE [h EXCEPT !.oob = TRUE]

\* ------------------------------------------------------- collection state
\* A variant of empty that looks at the number of nodes.
empty_by_size(h) == h.size = 0

empty(h) == h.count = 0

\* A variant of full that counts the element slots.
full_by_count(h) == h.count = 2 * h.capacity

full(h) == h.size >= h.capacity /\ h.count % 2 = 0

count(h) == h.count

capacity(h) == h.capacity

\* ------------------------------------------------------------ construction
\* A variant of NodeCapacity that does not halve.
NodeCapacityUnhalved(c) == c

NodeCapacity(c) == IF c % 2 = 0 THEN c \div 2 ELSE (c + 1) \div 2

new(c) ==
    [buffer |-> [i \in 0..(NodeCapacity(c) - 1) |-> <<Zero, Zero>>],
     capacity |-> NodeCapacity(c),
     size |-> 0,
     count |-> 0,
     oob |-> FALSE,
     junk |-> Zero]

\* The largest capacity a call can pass, at a word of Width bits.
UINT64_MAX == 2 ^ Width - 1

\* new_custom returns [ret |-> a heap was returned, h |-> that heap]. f_val:
\* an element function table is passed; ok_heap, ok_buffer: malloc and calloc
\* return memory. PFX##_new is the same code with the default allocator and
\* no callbacks.
\* A variant of new_custom that accepts every capacity but 0.
new_custom_unchecked(cap, f_val, ok_heap, ok_buffer) ==
    IF cap = 0 \/ ~f_val \/ ~ok_heap \/ ~ok_buffer
    THEN [ret |-> FALSE, h |-> new(1)]
    ELSE [ret |-> TRUE, h |-> new(cap)]

new_custom(cap, f_val, ok_heap, ok_buffer) ==
    IF cap = 0 \/ cap = UINT64_MAX THEN [ret |-> FALSE, h |-> new(1)]
    ELSE IF ~f_val THEN [ret |-> FALSE, h |-> new(1)]
    ELSE IF ~ok_heap THEN [ret |-> FALSE, h |-> new(1)]
    ELSE IF ~ok_buffer THEN [ret |-> FALSE, h |-> new(1)]
    ELSE [ret |-> TRUE, h |-> new(cap)]

\* ------------------------------------------------------------------ resize
\* realloc_ok = FALSE: the allocator returns NULL.  realloc(buffer, 0) that
\* returns NULL has released the block.
resize(h, c, realloc_ok) ==
    IF capacity(h) = c THEN [h |-> h, ret |-> TRUE]
    ELSE IF c < count(h) THEN [h |-> h, ret |-> FALSE]
    ELSE LET n == NodeCapacity(c)
             old == h.capacity
         IN IF ~realloc_ok
            THEN [h |-> IF n = 0
                        THEN [h EXCEPT !.buffer = [i \in {} |-> <<Zero, Zero>>]]
                        ELSE h,
                  ret |-> FALSE]
            ELSE [h |-> [h EXCEPT
                           !.buffer = [i \in 0..(n - 1) |->
                                         IF i >= old /\ i < 2 * old
                                         THEN <<Zero, Zero>>
                                         ELSE IF i \in DOMAIN h.buffer
                                         THEN h.buffer[i]
                                         ELSE <<h.junk, h.junk>>],
                           !.capacity = n,
                           !.oob = h.oob \/ (old > 0 /\ 2 * old > n)],
                  ret |-> TRUE]

\* ------------------------------------------------------------- float up
RECURSIVE FloatUpMax(_, _)
FloatUpMax(h, index) ==
    IF index <= 0 THEN h
    ELSE LET P == (index - 1) \div 2
             g == Touch(Touch(h, index), P)
         IN IF index = h.size - 1 /\ count(h) % 2 # 0
            THEN IF cmp(Rd(h, index, 0), Rd(h, P, 1)) < 0 THEN g
                 ELSE FloatUpMax(
                          Wr(Wr(g, index, 0, Rd(h, P, 1)), P, 1, Rd(h, index, 0)),
                          P)
            ELSE IF cmp(Rd(h, index, 1), Rd(h, P, 1)) < 0 THEN g
                 ELSE FloatUpMax(
                          Wr(Wr(g, index, 1, Rd(h, P, 1)), P, 1, Rd(h, index, 1)),
                          P)

impl_float_up_max(h) == FloatUpMax(h, h.size - 1)

RECURSIVE FloatUpMin(_, _)
FloatUpMin(h, index) ==
    IF index <= 0 THEN h
    ELSE LET P == (index - 1) \div 2
             g == Touch(Touch(h, index), P)
         IN IF cmp(Rd(h, index, 0), Rd(h, P, 0)) >= 0 THEN g
            ELSE FloatUpMin(
                     Wr(Wr(g, index, 0, Rd(h, P, 0)), P, 0, Rd(h, index, 0)),
                     P)

\* A variant of impl_float_up_min that climbs one level only.
impl_float_up_min_once(h) ==
    LET index == h.size - 1
        P == (index - 1) \div 2
    IN IF index <= 0 \/ cmp(Rd(h, index, 0), Rd(h, P, 0)) >= 0 THEN h
       ELSE Wr(Wr(h, index, 0, Rd(h, P, 0)), P, 0, Rd(h, index, 0))

impl_float_up_min(h) == FloatUpMin(h, h.size - 1)

\* ------------------------------------------------------------ float down
Swap01(h, i) == Wr(Wr(h, i, 0, Rd(h, i, 1)), i, 1, Rd(h, i, 0))

\* A variant of MaxChild that always takes the left child.
MaxChildLeft(h, index) == index * 2 + 1

MaxChild(h, index) ==
    LET L_index == index * 2 + 1
        R_index == index * 2 + 2
    IN IF R_index < h.size
       THEN IF R_index = h.size - 1 /\ count(h) % 2 # 0
            THEN IF cmp(Rd(h, L_index, 1), Rd(h, R_index, 0)) > 0
                 THEN L_index ELSE R_index
            ELSE IF cmp(Rd(h, L_index, 1), Rd(h, R_index, 1)) > 0
                 THEN L_index ELSE R_index
       ELSE L_index

RECURSIVE FloatDownMax(_, _)
FloatDownMax(h, index) ==
    IF 2 * index + 1 >= h.size THEN h
    ELSE LET child == MaxChild(h, index)
             g == Touch(Touch(Touch(h, index), index * 2 + 1),
                        IF index * 2 + 2 < h.size THEN index * 2 + 2 ELSE index)
         IN IF child = h.size - 1 /\ count(h) % 2 # 0
            THEN IF cmp(Rd(h, index, 1), Rd(h, child, 0)) >= 0 THEN g
                 ELSE FloatDownMax(
                          Wr(Wr(g, child, 0, Rd(h, index, 1)),
                             index, 1, Rd(h, child, 0)),
                          child)
            ELSE IF cmp(Rd(h, index, 1), Rd(h, child, 1)) >= 0 THEN g
                 ELSE LET s == Wr(Wr(g, child, 1, Rd(h, index, 1)),
                                  index, 1, Rd(h, child, 1))
                      IN FloatDownMax(
                             IF cmp(Rd(s, child, 0), Rd(s, child, 1)) > 0
                             THEN Swap01(s, child) ELSE s,
                             child)

impl_float_down_max(h) == FloatDownMax(h, 0)

\* A variant of MinChild that always takes the left child.
MinChildLeft(h, index) == index * 2 + 1

MinChild(h, index) ==
    LET L_index == index * 2 + 1
        R_index == index * 2 + 2
    IN IF R_index < h.size
       THEN IF cmp(Rd(h, L_index, 0), Rd(h, R_index, 0)) < 0
            THEN L_index ELSE R_index
       ELSE L_index

RECURSIVE FloatDownMin(_, _)
FloatDownMin(h, index) ==
    IF 2 * index + 1 >= h.size THEN h
    ELSE LET child == MinChild(h, index)
             g == Touch(Touch(Touch(h, index), index * 2 + 1),
                        IF index * 2 + 2 < h.size THEN index * 2 + 2 ELSE index)
         IN IF cmp(Rd(h, index, 0), Rd(h, child, 0)) < 0 THEN g
            ELSE LET s == Wr(Wr(g, child, 0, Rd(h, index, 0)),
                             index, 0, Rd(h, child, 0))
                 IN FloatDownMin(
                        IF (child # h.size - 1 \/ count(h) % 2 = 0)
                           /\ cmp(Rd(s, child, 0), Rd(s, child, 1)) > 0
                        THEN Swap01(s, child) ELSE s,
                        child)

impl_float_down_min(h) == FloatDownMin(h, 0)

\* ------------------------------------------------------- input and output
\* Every operation returns [h |-> the heap afterwards, ret |-> its return
\* value]; those with an out-parameter take its current value and return it
\* as result.
PlaceElement(h, element) ==
    IF count(h) % 2 = 0
    THEN [Wr(Wr(h, h.size, 0, element), h.size, 1, Zero)
            EXCEPT !.size = h.size + 1]
    ELSE LET n == h.size - 1
         IN IF cmp(Rd(h, n, 0), element) > 0
            THEN Wr(Wr(Touch(h, n), n, 1, Rd(h, n, 0)), n, 0, element)
            ELSE Wr(Touch(h, n), n, 1, element)

InsertParent(h) == (h.size - 1) \div 2

FloatUpDispatch(h, element) ==
    LET P == InsertParent(h)
        g == Touch(h, P)
    IN IF cmp(Rd(h, P, 0), element) > 0 THEN impl_float_up_min(g)
       ELSE IF cmp(Rd(h, P, 1), element) < 0 THEN impl_float_up_max(g)
       ELSE g

\* The float-up a comparison of element with node P asks for.
ChoiceAt(h, P, element) ==
    IF cmp(Rd(h, P, 0), element) > 0 THEN "float_up_min"
    ELSE IF cmp(Rd(h, P, 1), element) < 0 THEN "float_up_max"
    ELSE "none"

\* The float-up insert runs once the element is placed and counted.
FloatUpChoice(h, element) == ChoiceAt(h, InsertParent(h), element)

\* The heap of a successful insert at the point where insert chooses.
Placed(h, element, realloc_ok) ==
    LET r == IF full(h)
             THEN resize(h, capacity(h) * 4, realloc_ok)
             ELSE [h |-> h, ret |-> TRUE]
        h1 == PlaceElement(r.h, element)
    IN [h1 EXCEPT !.count = h1.count + 1]

\* A variant of insert that does not look at what resize returned.
insert_unchecked(h, element, realloc_ok) ==
    LET r == IF full(h)
             THEN resize(h, capacity(h) * 4, realloc_ok)
             ELSE [h |-> h, ret |-> TRUE]
        h1 == PlaceElement(r.h, element)
        h2 == [h1 EXCEPT !.count = h1.count + 1]
    IN [h |-> IF count(h2) <= 2 THEN h2 ELSE FloatUpDispatch(h2, element),
        ret |-> TRUE]

insert(h, element, realloc_ok) ==
    LET r == IF full(h)
             THEN resize(h, capacity(h) * 4, realloc_ok)
             ELSE [h |-> h, ret |-> TRUE]
    IN IF ~r.ret THEN [h |-> r.h, ret |-> FALSE]
       ELSE LET h1 == PlaceElement(r.h, element)
                h2 == [h1 EXCEPT !.count = h1.count + 1]
            IN [h |-> IF count(h2) <= 2 THEN h2
                      ELSE FloatUpDispatch(h2, element),
                ret |-> TRUE]

remove_max(h, result) ==
    IF empty(h) THEN [h |-> h, ret |-> FALSE, result |-> result]
    ELSE IF count(h) = 1
    THEN [h |-> [Wr(Touch(h, 0), 0, 0, Zero) EXCEPT !.count = h.count - 1],
          ret |-> TRUE,
          result |-> Rd(h, 0, 0)]
    ELSE LET last == h.size - 1
             g == Touch(Touch(h, 0), last)
             h1 == IF count(h) % 2 = 1
                   THEN LET a == Wr(g, 0, 1, Rd(g, last, 0))
                        IN [Wr(a, last, 0, Zero) EXCEPT !.size = h.size - 1]
                   ELSE LET a == Wr(g, 0, 1, Rd(g, last, 1))
                        IN Wr(a, last, 1, Zero)
             h2 == [h1 EXCEPT !.count = h1.count - 1]
         IN [h |-> impl_float_down_max(h2),
             ret |-> TRUE,
             result |-> Rd(h, 0, 1)]

\* A variant of remove_min whose single-element branch keeps count.
remove_min_keeps_count(h, result) ==
    IF empty(h) THEN [h |-> h, ret |-> FALSE, result |-> result]
    ELSE IF count(h) = 1
    THEN [h |-> Wr(Touch(h, 0), 0, 0, Zero),
          ret |-> TRUE,
          result |-> Rd(h, 0, 0)]
    ELSE LET last == h.size - 1
             g == Touch(Touch(h, 0), last)
             a == Wr(g, 0, 0, Rd(g, last, 0))
             h1 == IF count(h) % 2 = 1
                   THEN [Wr(a, last, 0, Zero) EXCEPT !.size = h.size - 1]
                   ELSE Wr(Wr(a, last, 0, Rd(a, last, 1)), last, 1, Zero)
             h2 == [h1 EXCEPT !.count = h1.count - 1]
         IN [h |-> impl_float_down_min(h2),
             ret |-> TRUE,
             result |-> Rd(h, 0, 0)]

remove_min(h, result) ==
    IF empty(h) THEN [h |-> h, ret |-> FALSE, result |-> result]
    ELSE IF count(h) = 1
    THEN [h |-> [Wr(Touch(h, 0), 0, 0, Zero) EXCEPT !.count = h.count - 1],
          ret |-> TRUE,
          result |-> Rd(h, 0, 0)]
    ELSE LET last == h.size - 1
             g == Touch(Touch(h, 0), last)
             a == Wr(g, 0, 0, Rd(g, last, 0))
             h1 == IF count(h) % 2 = 1
                   THEN [Wr(a, last, 0, Zero) EXCEPT !.size = h.size - 1]
                   ELSE Wr(Wr(a, last, 0, Rd(a, last, 1)), last, 1, Zero)
             h2 == [h1 EXCEPT !.count = h1.count - 1]
         IN [h |-> impl_float_down_min(h2),
             ret |-> TRUE,
             result |-> Rd(h, 0, 0)]

\* ------------------------------------------------------------------ update
\* A variant of update_max without the case of an element below the minimum.
update_max_naive(h, element) ==
    IF empty(h) THEN [h |-> h, ret |-> FALSE]
    ELSE IF count(h) = 1
    THEN [h |-> Wr(h, 0, 0, element), ret |-> TRUE]
    ELSE [h |-> impl_float_down_max(Wr(Touch(h, 0), 0, 1, element)),
          ret |-> TRUE]

update_max(h, element) ==
    IF empty(h) THEN [h |-> h, ret |-> FALSE]
    ELSE IF count(h) = 1
    THEN [h |-> Wr(h, 0, 0, element), ret |-> TRUE]
    ELSE IF cmp(element, Rd(h, 0, 0)) < 0
    THEN [h |-> impl_float_down_max(
                    Wr(Wr(Touch(h, 0), 0, 1, Rd(h, 0, 0)), 0, 0, element)),
          ret |-> TRUE]
    ELSE [h |-> impl_float_down_max(Wr(Touch(h, 0), 0, 1, element)),
          ret |-> TRUE]

\* A variant of update_min without the case of an element above the maximum.
update_min_naive(h, element) ==
    IF empty(h) THEN [h |-> h, ret |-> FALSE]
    ELSE IF count(h) = 1
    THEN [h |-> Wr(h, 0, 0, element), ret |-> TRUE]
    ELSE [h |-> impl_float_down_min(Wr(Touch(h, 0), 0, 0, element)),
          ret |-> TRUE]

update_min(h, element) ==
    IF empty(h) THEN [h |-> h, ret |-> FALSE]
    ELSE IF count(h) = 1
    THEN [h |-> Wr(h, 0, 0, element), ret |-> TRUE]
    ELSE IF cmp(element, Rd(h, 0, 1)) > 0
    THEN [h |-> impl_float_down_min(
                    Wr(Wr(Touch(h, 0), 0, 0, Rd(h, 0, 1)), 0, 1, element)),
          ret |-> TRUE]
    ELSE [h |-> impl_float_down_min(Wr(Touch(h, 0), 0, 0, element)),
          ret |-> TRUE]

\* ---------------------------------------------------------- element access
max(h, value) ==
    IF empty(h) THEN [h |-> h, ret |-> FALSE, result |-> value]
    ELSE [h |-> Touch(h, 0),
          ret |-> TRUE,
          result |-> IF count(h) = 1 THEN Rd(h, 0, 0) ELSE Rd(h, 0, 1)]

min(h, value) ==
    IF empty(h) THEN [h |-> h, ret |-> FALSE, result |-> value]
    ELSE [h |-> Touch(h, 0), ret |-> TRUE, result |-> Rd(h, 0, 0)]

\* The element at linear position i: buffer[i / 2].data[i % 2].
Slot(h, i) == Rd(h, i \div 2, i % 2)

contains(h, element) ==
    LET hit(i) == cmp(Slot(h, i), element) = 0
        seen(i) == \A j \in 0..(i - 1) : ~hit(j)
    IN [h |-> IF \E i \in 0..(h.count - 1) :
                   seen(i) /\ (i \div 2) \notin DOMAIN h.buffer
              THEN [h EXCEPT !.oob = TRUE] ELSE h,
        ret |-> \E i \in 0..(h.count - 1) : hit(i)]

\* ------------------------------------------------------------------- clear
\* memset(buffer, 0, sizeof(V) * capacity) clears the first capacity
\* element slots, that is the nodes below capacity / 2 (and data[0] of the
\* next one when capacity is odd).
clear(h) ==
    [h EXCEPT
       !.buffer = [i \in DOMAIN h.buffer |->
                     <<IF 2 * i < h.capacity THEN Zero ELSE h.buffer[i][1],
                       IF 2 * i + 1 < h.capacity THEN Zero ELSE h.buffer[i][2]>>],
       !.oob = h.oob \/ (h.capacity > 0 /\ DOMAIN h.buffer = {}),
       !.size = 0,
       !.count = 0]

\* What clear and free do, in order: "free_element" is f_val->free on a stored
\* element (has_free: the table has that function), "memset", "size" and
\* "count" are the writes of clear, "free_buffer" and "free_heap" the releases
\* of free. Neither function calls a callback of the heap.
ElementFrees(h, has_free) ==
    IF has_free THEN [i \in 1..h.count |-> "free_element"] ELSE <<>>

clear_events(h, has_free) ==
    ElementFrees(h, has_free) \o <<"memset", "size", "count">>

free_events(h, has_free) ==
    ElementFrees(h, has_free) \o <<"free_buffer", "free_heap">>

\* --------------------------------------------------------- copy and equals
\* copy_of returns [h |-> the source afterwards, ret |-> a heap was returned,
\* copy |-> that heap, alias |-> it uses the node array of the source].
\* cpy: f_val->cpy is set (it copies an int as it is); ok_heap, ok_buffer:
\* the two malloc calls return memory.
\* A variant of copy_of that keeps the buffer pointer memcpy put in the copy.
copy_of_shallow(h, cpy, ok_heap, ok_buffer) ==
    IF ~ok_heap \/ ~ok_buffer
    THEN [h |-> h, ret |-> FALSE, copy |-> h, alias |-> FALSE]
    ELSE [h |-> h, ret |-> TRUE, copy |-> h, alias |-> TRUE]

copy_of(h, cpy, ok_heap, ok_buffer) ==
    IF ~ok_heap \/ ~ok_buffer
    THEN [h |-> h, ret |-> FALSE, copy |-> h, alias |-> FALSE]
    ELSE LET nodes == 0..(h.capacity - 1)
             read == IF cpy THEN {i \div 2 : i \in 0..(h.count - 1)} ELSE nodes
             copied(i, j) == IF cpy /\ 2 * i + j >= h.count THEN h.junk
                             ELSE Rd(h, i, j)
         IN [h |-> IF read \subseteq DOMAIN h.buffer THEN h
                   ELSE [h EXCEPT !.oob = TRUE],
             ret |-> TRUE,
             copy |-> [buffer |-> [i \in nodes |-> <<copied(i, 0), copied(i, 1)>>],
                       capacity |-> h.capacity,
                       size |-> h.size,
                       count |-> h.count,
                       oob |-> cpy /\ ~(read \subseteq nodes),
                       junk |-> Zero],
             alias |-> FALSE]

equals(h1, h2) ==
    [ret |-> /\ count(h1) = count(h2)
             /\ \E i \in 0..(h1.count - 1) : cmp(Slot(h1, i), Slot(h2, i)) = 0]

\* ------------------------------------------------------------------ cursor
\* A cursor is a record [cursor, start, end]; its target is passed along as h.
iter_init(h) == [cursor |-> 0, start |-> TRUE, end |-> empty(h)]

iter_start(it, h) == empty(h) \/ it.start

iter_end(it, h) == empty(h) \/ it.end

\* A variant of iter_to_start that leaves the end flag as it was.
iter_to_start_keeps_end(it, h) ==
    IF ~empty(h) THEN [cursor |-> 0, start |-> TRUE, end |-> it.end] ELSE it

iter_to_start(it, h) ==
    IF ~empty(h) THEN [cursor |-> 0, start |-> TRUE, end |-> empty(h)] ELSE it

\* A variant of iter_to_end that puts the cursor behind the last element.
iter_to_end_past(it, h) ==
    IF ~empty(h)
    THEN [cursor |-> h.count, start |-> empty(h), end |-> TRUE]
    ELSE it

\* A variant of iter_to_end that leaves the start flag as it was.
iter_to_end_keeps_start(it, h) ==
    IF ~empty(h)
    THEN [cursor |-> h.count - 1, start |-> it.start, end |-> TRUE]
    ELSE it

iter_to_end(it, h) ==
    IF ~empty(h)
    THEN [cursor |-> h.count - 1, start |-> empty(h), end |-> TRUE]
    ELSE it

\* The moves return [it |-> the cursor afterwards, ret |-> the return value].
\* A variant of iter_next that moves as long as an element is left.
iter_next_to_count(it, h) ==
    IF it.end THEN [it |-> it, ret |-> FALSE]
    ELSE IF it.cursor = count(h)
    THEN [it |-> [it EXCEPT !.end = TRUE], ret |-> FALSE]
    ELSE [it |-> [it EXCEPT !.start = empty(h), !.cursor = it.cursor + 1],
          ret |-> TRUE]

iter_next(it, h) ==
    IF it.end THEN [it |-> it, ret |-> FALSE]
    ELSE IF it.cursor + 1 = count(h)
    THEN [it |-> [it EXCEPT !.end = TRUE], ret |-> FALSE]
    ELSE [it |-> [it EXCEPT !.start = empty(h), !.cursor = it.cursor + 1],
          ret |-> TRUE]

\* A variant of iter_prev that does not set the start flag at the first
\* element.
iter_prev_no_stop(it, h) ==
    IF it.start THEN [it |-> it, ret |-> FALSE]
    ELSE IF it.cursor = 0 THEN [it |-> it, ret |-> FALSE]
    ELSE [it |-> [it EXCEPT !.end = empty(h), !.cursor = it.cursor - 1],
          ret |-> TRUE]

\* A variant of iter_prev that leaves the end flag as it was.
iter_prev_keeps_end(it, h) ==
    IF it.start THEN [it |-> it, ret |-> FALSE]
    ELSE IF it.cursor = 0
    THEN [it |-> [it EXCEPT !.start = TRUE], ret |-> FALSE]
    ELSE [it |-> [it EXCEPT !.cursor = it.cursor - 1], ret |-> TRUE]

iter_prev(it, h) ==
    IF it.start THEN [it |-> it, ret |-> FALSE]
    ELSE IF it.cursor = 0
    THEN [it |-> [it EXCEPT !.start = TRUE], ret |-> FALSE]
    ELSE [it |-> [it EXCEPT !.end = empty(h), !.cursor = it.cursor - 1],
          ret |-> TRUE]

iter_advance(it, h, steps) ==
    IF it.start THEN [it |-> it, ret |-> FALSE]
    ELSE IF it.cursor = 0
    THEN [it |-> [it EXCEPT !.start = TRUE], ret |-> FALSE]
    ELSE IF steps = 0 \/ it.cursor + steps >= count(h)
    THEN [it |-> it, ret |-> FALSE]
    ELSE [it |-> [it EXCEPT !.start = empty(h), !.cursor = it.cursor + steps],
          ret |-> TRUE]

\* A variant of iter_rewind that lets the cursor pass the first element.
iter_rewind_unchecked(it, h, steps) ==
    IF it.start THEN [it |-> it, ret |-> FALSE]
    ELSE IF it.cursor = 0
    THEN [it |-> [it EXCEPT !.start = TRUE], ret |-> FALSE]
    ELSE IF steps = 0 THEN [it |-> it, ret |-> FALSE]
    ELSE [it |-> [it EXCEPT !.end = empty(h),
                            !.cursor = IF it.cursor < steps THEN 0
                                       ELSE it.cursor - steps],
          ret |-> TRUE]

iter_rewind(it, h, steps) ==
    IF it.start THEN [it |-> it, ret |-> FALSE]
    ELSE IF it.cursor = 0
    THEN [it |-> [it EXCEPT !.start = TRUE], ret |-> FALSE]
    ELSE IF steps = 0 \/ it.cursor < steps THEN [it |-> it, ret |-> FALSE]
    ELSE [it |-> [it EXCEPT !.end = empty(h), !.cursor = it.cursor - steps],
          ret |-> TRUE]

iter_go_to(it, h, index) ==
    IF index >= count(h) THEN [it |-> it, ret |-> FALSE]
    ELSE IF it.cursor > index THEN iter_rewind(it, h, it.cursor - index)
    ELSE IF it.cursor < index THEN iter_advance(it, h, index - it.cursor)
    ELSE [it |-> it, ret |-> TRUE]

iter_value(it, h) ==
    IF empty(h) THEN Zero ELSE Rd(h, it.cursor \div 2, it.cursor % 2)

iter_index(it) == it.cursor

\* ------------------------------------------------------------ multisets
\* A multiset of elements: how many times each value occurs.
EmptyBag == [v \in AllValues |-> 0]

BagAdd(b, v) == IF v \in DOMAIN b THEN [b EXCEPT ![v] = @ + 1] ELSE b

BagDel(b, v) == IF v \in DOMAIN b /\ b[v] > 0 THEN [b EXCEPT ![v] = @ - 1] ELSE b

BagSize(b) ==
    LET RECURSIVE Sum(_)
        Sum(S) == IF S = {} THEN 0
                  ELSE LET v == CHOOSE x \in S : TRUE IN b[v] + Sum(S \ {v})
    IN Sum(DOMAIN b)

BagElems(b) == {v \in DOMAIN b : b[v] > 0}

BagMin(b) == CHOOSE v \in BagElems(b) : \A w \in BagElems(b) : v <= w

BagMax(b) == CHOOSE v \in BagElems(b) : \A w \in BagElems(b) : v >= w

\* The multiset stored in the element slots 0..count-1 of a heap.
Stored(h) ==
    [v \in AllValues |-> Cardinality({i \in 0..(h.count - 1) : Slot(h, i) = v})]

\* -------------------------------------------------------------------- state
VARIABLES
    heap,       \* the heap
    result,     \* the caller's out-parameter variable after the last call
    ret,        \* the return value of the last call
    op,         \* the last call
    nomem,      \* the allocator returned NULL during the last call
    arg,        \* its element, capacity, steps or index argument (Zero if none)
    pre,        \* the heap just before the call (single-call specifications)
    bag,        \* the elements inserted and not yet removed (kept while
                \* queueOnly, empty afterwards)
    net,        \* successful inserts minus successful removals
    queueOnly,  \* only insert, remove and read-only calls so far
    phase,      \* "main"; "insert", "min", "max", "min_done", "max_done"
                \* (sorting); "start", "done" (single call)
    out,        \* the values the drain has removed, in order (sorting); the
                \* return values of the iter_next calls since iter_to_start
                \* (cursor walk)
    iter,       \* a cursor on heap: the fields of struct SNAME##_iter
    other,      \* a second heap (the result of copy_of)
    alias,      \* heap and other use the same node array
    after,      \* the number of mutating calls since the copy was made
    on          \* the heap the last call was made on: 1 (heap) or 2 (other)

vars == <<heap, result, ret, op, nomem, arg, pre, bag, net, queueOnly, phase,
          out, iter, other, alias, after, on>>

\* The variables of the cursor and of the second heap.
side == <<iter, other, alias, after, on>>


\* What the caller's variable holds before each call: a value that is no
\* element and not Zero, so that any write to it shows.
Untouched == MaxVal + 2

\* What a read outside the buffer may yield in a call on h.
JunkFor(h) ==
    IF \E i \in 0..h.size : i \notin DOMAIN h.buffer THEN Garbage ELSE {Zero}

WithJunk(h, g) == [h EXCEPT !.junk = g]

Settle(h) == [h EXCEPT !.junk = Zero]

Init ==
    /\ \E c \in 1..MaxNewCap : heap = new(c)
    /\ result = Untouched
    /\ ret = TRUE
    /\ op = "new"
    /\ nomem = FALSE
    /\ arg = Zero
    /\ pre = heap
    /\ bag = EmptyBag
    /\ net = 0
    /\ queueOnly = TRUE
    /\ phase = "main"
    /\ out = <<>>
    /\ iter = iter_init(heap)
    /\ other = heap
    /\ alias = FALSE
    /\ after = 0
    /\ on = 1

\* The part of a step every call of the main specification shares.  A call
\* that accesses memory outside the buffer has undefined behaviour: its own
\* outcome is modelled (lost writes, arbitrary reads), and the behaviour is
\* not followed beyond it.
Call(name, a, r, res, b, n, q, failed) ==
    /\ phase = "main"
    /\ ~heap.oob
    /\ heap' = Settle(r.h)
    /\ ret' = r.ret
    /\ result' = res
    /\ op' = name
    /\ nomem' = failed
    /\ arg' = a
    /\ bag' = IF q THEN b ELSE EmptyBag
    /\ net' = n
    /\ queueOnly' = q
    /\ UNCHANGED <<pre, phase, out, side>>

\* Whether resize(h, c) gets as far as calling realloc, and the outcomes of
\* the allocator then (TRUE: it returns memory).
ReachesRealloc(h, c) == capacity(h) # c /\ c >= count(h)

AllocOutcomes(reached) == IF reached THEN BOOLEAN ELSE {TRUE}

\* Bounds of the model: the storage grows to at most MaxCapacity nodes, and
\* size (which the code lets run ahead of the storage once capacity is 0)
\* stays within MaxCapacity + 1.
GrowthFits(h) ==
    /\ full(h) => NodeCapacity(capacity(h) * 4) <= MaxCapacity
    /\ h.size <= MaxCapacity

Insert(e) ==
    /\ count(heap) < MaxCount
    /\ GrowthFits(heap)
    /\ \E ok \in AllocOutcomes(full(heap)
                                /\ ReachesRealloc(heap, capacity(heap) * 4)),
          g \in JunkFor(heap) :
         LET r == insert(WithJunk(heap, g), e, ok)
         IN Call("insert", e, r, Untouched,
                 IF r.ret THEN BagAdd(bag, e) ELSE bag,
                 IF r.ret THEN net + 1 ELSE net,
                 queueOnly, ~ok)

RemoveMin ==
    \E g \in JunkFor(heap) :
      LET r == remove_min(WithJunk(heap, g), Untouched)
      IN Call("remove_min", Zero, r, r.result,
              IF r.ret THEN BagDel(bag, r.result) ELSE bag,
              IF r.ret THEN net - 1 ELSE net,
              queueOnly, FALSE)

RemoveMax ==
    \E g \in JunkFor(heap) :
      LET r == remove_max(WithJunk(heap, g), Untouched)
      IN Call("remove_max", Zero, r, r.result,
              IF r.ret THEN BagDel(bag, r.result) ELSE bag,
              IF r.ret THEN net - 1 ELSE net,
              queueOnly, FALSE)

UpdateMin(e) ==
    \E g \in JunkFor(heap) :
      LET r == update_min(WithJunk(heap, g), e)
      IN Call("update_min", e, r, Untouched, bag, net, FALSE, FALSE)

UpdateMax(e) ==
    \E g \in JunkFor(heap) :
      LET r == update_max(WithJunk(heap, g), e)
      IN Call("update_max", e, r, Untouched, bag, net, FALSE, FALSE)

PeekMin ==
    \E g \in JunkFor(heap) :
      LET r == min(WithJunk(heap, g), Untouched)
      IN Call("min", Zero, r, r.result, bag, net, queueOnly, FALSE)

PeekMax ==
    \E g \in JunkFor(heap) :
      LET r == max(WithJunk(heap, g), Untouched)
      IN Call("max", Zero, r, r.result, bag, net, queueOnly, FALSE)

Contains(e) ==
    \E g \in JunkFor(heap) :
      LET r == contains(WithJunk(heap, g), e)
      IN Call("contains", e, r, Untouched, bag, net, queueOnly, FALSE)

Resize(c) ==
    /\ NodeCapacity(c) <= MaxCapacity
    /\ \E ok \in AllocOutcomes(ReachesRealloc(heap, c)),
          g \in (IF NodeCapacity(c) > 2 * capacity(heap) THEN Garbage ELSE {Zero}) :
         LET r == resize(WithJunk(heap, g), c, ok)
         IN Call("resize", c, r, Untouched, bag, net, FALSE, ~ok)

Clear ==
    LET r == [h |-> clear(heap), ret |-> TRUE]
    IN Call("clear", Zero, r, Untouched, EmptyBag, 0, FALSE, FALSE)

Next ==
    \/ \E e \in Values : Insert(e)
    \/ RemoveMin
    \/ RemoveMax
    \/ \E e \in Values : UpdateMin(e)
    \/ \E e \in Values : UpdateMax(e)
    \/ PeekMin
    \/ PeekMax
    \/ \E e \in Values : Contains(e)
    \/ \E c \in 0..MaxResize : Resize(c)
    \/ Clear

Spec == Init /\ [][Next]_vars

\* The calls of Spec without the explicit resize: the storage changes only
\* when insert grows it.
AutoNext ==
    \/ \E e \in Values : Insert(e)
    \/ RemoveMin
    \/ RemoveMax
    \/ \E e \in Values : UpdateMin(e)
    \/ \E e \in Values : UpdateMax(e)
    \/ Clear

SpecAuto == Init /\ [][AutoNext]_vars

\* ------------------------------------------------------------ after clear
\* The calls of Spec, then clear, then the same inserts and removals on the
\* cleared heap (heap) and on a fresh heap of its capacity (other). What a
\* read outside the storage returns is anything.
Fresh(h) ==
    [buffer |-> [i \in 0..(h.capacity - 1) |-> <<Zero, Zero>>],
     capacity |-> h.capacity,
     size |-> 0,
     count |-> 0,
     oob |-> FALSE,
     junk |-> Zero]

TwinCall(name, a, r, s) ==
    /\ heap' = Settle(r.h)
    /\ other' = Settle(s.h)
    /\ ret' = r.ret
    /\ op' = name
    /\ arg' = a
    /\ phase' = "twin"
    /\ UNCHANGED <<pre, bag, net, queueOnly, out, iter, alias, after, on>>

ClearTwin ==
    /\ phase = "main"
    /\ ~heap.oob
    /\ capacity(heap) >= 1
    /\ result' = Untouched
    /\ nomem' = FALSE
    /\ TwinCall("clear", Zero, [h |-> clear(heap), ret |-> TRUE],
                [h |-> Fresh(heap), ret |-> TRUE])

TwinInsert(e) ==
    /\ phase = "twin"
    /\ count(heap) < MaxCount /\ count(other) < MaxCount
    /\ GrowthFits(heap) /\ GrowthFits(other)
    /\ \E ok \in BOOLEAN, g \in JunkFor(heap) :
         /\ result' = Untouched
         /\ nomem' = ~ok
         /\ TwinCall("insert", e, insert(WithJunk(heap, g), e, ok),
                     insert(other, e, ok))

TwinRemoveMin ==
    /\ phase = "twin"
    /\ \E g \in JunkFor(heap) :
         LET r == remove_min(WithJunk(heap, g), Untouched)
         IN /\ result' = r.result
            /\ nomem' = FALSE
            /\ TwinCall("remove_min", Zero, r, remove_min(other, Untouched))

TwinRemoveMax ==
    /\ phase = "twin"
    /\ \E g \in JunkFor(heap) :
         LET r == remove_max(WithJunk(heap, g), Untouched)
         IN /\ result' = r.result
            /\ nomem' = FALSE
            /\ TwinCall("remove_max", Zero, r, remove_max(other, Untouched))

ClearNext ==
    \/ Next
    \/ ClearTwin
    \/ \E e \in Values : TwinInsert(e)
    \/ TwinRemoveMin
    \/ TwinRemoveMax

SpecClear == Init /\ [][ClearNext]_vars

\* ----------------------------------------------------- inserts and drains
\* A fresh heap receives up to MaxSortCount elements (every allocation
\* succeeds) and is then emptied by remove_min alone or by remove_max alone,
\* until the call fails.
SortInit ==
    /\ \E c \in 1..MaxNewCap : heap = new(c)
    /\ result = Untouched
    /\ ret = TRUE
    /\ op = "new"
    /\ nomem = FALSE
    /\ arg = Zero
    /\ pre = heap
    /\ bag = EmptyBag
    /\ net = 0
    /\ queueOnly = TRUE
    /\ phase = "insert"
    /\ out = <<>>
    /\ iter = iter_init(heap)
    /\ other = heap
    /\ alias = FALSE
    /\ after = 0
    /\ on = 1

SortInsert(e) ==
    /\ phase = "insert"
    /\ count(heap) < MaxSortCount
    /\ LET r == insert(heap, e, TRUE)
       IN /\ heap' = Settle(r.h)
          /\ ret' = r.ret
          /\ bag' = IF r.ret THEN BagAdd(bag, e) ELSE bag
          /\ net' = IF r.ret THEN net + 1 ELSE net
    /\ op' = "insert"
    /\ result' = Untouched
    /\ UNCHANGED <<nomem, arg, pre, queueOnly, phase, out, side>>

Drain(mode, name, r) ==
    /\ phase \in {"insert", mode}
    /\ heap' = Settle(r.h)
    /\ ret' = r.ret
    /\ result' = r.result
    /\ op' = name
    /\ out' = IF r.ret THEN Append(out, r.result) ELSE out
    /\ phase' = IF r.ret THEN mode
                ELSE IF mode = "min" THEN "min_done" ELSE "max_done"
    /\ net' = IF r.ret THEN net - 1 ELSE net
    /\ UNCHANGED <<nomem, arg, pre, bag, queueOnly, side>>

DrainMin ==
    LET r == remove_min(heap, Untouched)
    IN Drain("min", "remove_min", r)

DrainMax ==
    LET r == remove_max(heap, Untouched)
    IN Drain("max", "remove_max", r)

InsNext == \E e \in AllValues : SortInsert(e)

SpecIns == SortInit /\ [][InsNext]_vars

SortNext ==
    \/ \E e \in AllValues : SortInsert(e)
    \/ DrainMin
    \/ DrainMax

SpecSort == SortInit /\ [][SortNext]_vars

\* ---------------------------------------------------- structural invariants
\* The invariants (a)-(d) of the data model.
HasHigh(h, i) == ~(i = h.size - 1 /\ h.count % 2 = 1)

Low(h, i) == h.buffer[i][1]

High(h, i) == IF HasHigh(h, i) THEN h.buffer[i][2] ELSE h.buffer[i][1]

Parent(i) == (i - 1) \div 2

InvD(h) ==
    /\ h.size = (h.count + 1) \div 2
    /\ h.size <= h.capacity
    /\ DOMAIN h.buffer = 0..(h.capacity - 1)

InvA(h) == \A i \in 0..(h.size - 1) : Low(h, i) <= High(h, i)

InvB(h) == \A i \in 1..(h.size - 1) : Low(h, Parent(i)) <= Low(h, i)

InvC(h) == \A i \in 1..(h.size - 1) : High(h, Parent(i)) >= High(h, i)

Valid(h) == InvD(h) /\ InvA(h) /\ InvB(h) /\ InvC(h)

\* The heap that holds the elements f[0], ..., f[n-1] in its slots, in storage
\* of exactly the nodes in use.
HeapOf(n, f) ==
    [buffer |-> [i \in 0..(((n + 1) \div 2) - 1) |->
                   <<f[2 * i], IF 2 * i + 1 < n THEN f[2 * i + 1] ELSE Zero>>],
     capacity |-> (n + 1) \div 2,
     size |-> (n + 1) \div 2,
     count |-> n,
     oob |-> FALSE,
     junk |-> Zero]

\* ---------------------------------------------------------- a single call
\* One update call on any heap of 1..MaxValidCount elements that satisfies
\* the invariants (a)-(d).
ValidInit ==
    /\ \E n \in 1..MaxValidCount : \E f \in [0..(n - 1) -> AllValues] :
         /\ heap = HeapOf(n, f)
         /\ Valid(heap)
    /\ result = Untouched
    /\ ret = TRUE
    /\ op = "new"
    /\ nomem = FALSE
    /\ arg = Zero
    /\ pre = heap
    /\ bag = Stored(heap)
    /\ net = count(heap)
    /\ queueOnly = FALSE
    /\ phase = "start"
    /\ out = <<>>
    /\ iter = iter_init(heap)
    /\ other = heap
    /\ alias = FALSE
    /\ after = 0
    /\ on = 1

Single(name, e, r, res) ==
    /\ phase = "start"
    /\ heap' = Settle(r.h)
    /\ ret' = r.ret
    /\ result' = res
    /\ op' = name
    /\ arg' = e
    /\ phase' = "done"
    /\ UNCHANGED <<nomem, pre, bag, net, queueOnly, out, side>>

OneUpdateMin(e) ==
    LET r == update_min(heap, e)
    IN Single("update_min", e, r, Untouched)

OneUpdateMax(e) ==
    LET r == update_max(heap, e)
    IN Single("update_max", e, r, Untouched)

ValidNext ==
    \/ \E e \in AllValues : OneUpdateMin(e)
    \/ \E e \in AllValues : OneUpdateMax(e)

SpecValid == ValidInit /\ [][ValidNext]_vars

\* One removal from any such heap.
OneRemoveMin ==
    LET r == remove_min(heap, Untouched)
    IN Single("remove_min", Zero, r, r.result)

OneRemoveMax ==
    LET r == remove_max(heap, Untouched)
    IN Single("remove_max", Zero, r, r.result)

RemoveNext ==
    \/ OneRemoveMin
    \/ OneRemoveMax

SpecRemove == ValidInit /\ [][RemoveNext]_vars

\* ---------------------------------------------------------------- two heaps
\* Calls on a heap, then copy_of, then up to MaxAfter mutating calls on the
\* heap or on its copy, and equals on the two.
CopyInit ==
    /\ \E c \in 1..MaxNewCap : heap = new(c)
    /\ result = Untouched
    /\ ret = TRUE
    /\ op = "new"
    /\ nomem = FALSE
    /\ arg = Zero
    /\ pre = heap
    /\ bag = EmptyBag
    /\ net = 0
    /\ queueOnly = FALSE
    /\ phase = "single"
    /\ out = <<>>
    /\ iter = iter_init(heap)
    /\ other = heap
    /\ alias = FALSE
    /\ after = 0
    /\ on = 1

Target(t) == IF t = 1 THEN heap ELSE other

Targets == IF phase = "pair" THEN {1, 2} ELSE {1}

\* What a call that left heap n behind makes of heap x that it was not made
\* on: nothing, unless the two use the same node array.
Shared(x, n) == IF alias THEN [x EXCEPT !.buffer = n.buffer] ELSE x

\* The part of a step every mutating call on one of the two heaps shares.
Mutate(name, a, t, r, res, failed) ==
    /\ phase \in {"single", "pair"}
    /\ phase = "pair" => after < MaxAfter
    /\ ~heap.oob /\ ~other.oob
    /\ heap' = IF t = 1 THEN Settle(r.h) ELSE Shared(heap, r.h)
    /\ other' = IF t = 2 THEN Settle(r.h) ELSE Shared(other, r.h)
    /\ ret' = r.ret
    /\ op' = name
    /\ arg' = a
    /\ result' = res
    /\ nomem' = failed
    /\ on' = t
    /\ after' = IF phase = "pair" THEN after + 1 ELSE after
    /\ UNCHANGED <<pre, bag, net, queueOnly, phase, out, iter, alias>>

CInsert(t, e) ==
    /\ count(Target(t)) < MaxCopyCount
    /\ GrowthFits(Target(t))
    /\ \E ok \in AllocOutcomes(full(Target(t))
                                /\ ReachesRealloc(Target(t), capacity(Target(t)) * 4)),
          g \in JunkFor(Target(t)) :
         LET r == insert(WithJunk(Target(t), g), e, ok)
         IN Mutate("insert", e, t, r, Untouched, ~ok)

CRemoveMin(t) ==
    \E g \in JunkFor(Target(t)) :
      LET r == remove_min(WithJunk(Target(t), g), Untouched)
      IN Mutate("remove_min", Zero, t, r, r.result, FALSE)

CRemoveMax(t) ==
    \E g \in JunkFor(Target(t)) :
      LET r == remove_max(WithJunk(Target(t), g), Untouched)
      IN Mutate("remove_max", Zero, t, r, r.result, FALSE)

CUpdateMin(t, e) ==
    \E g \in JunkFor(Target(t)) :
      LET r == update_min(WithJunk(Target(t), g), e)
      IN Mutate("update_min", e, t, r, Untouched, FALSE)

CUpdateMax(t, e) ==
    \E g \in JunkFor(Target(t)) :
      LET r == update_max(WithJunk(Target(t), g), e)
      IN Mutate("update_max", e, t, r, Untouched, FALSE)

CResize(t, c) ==
    /\ NodeCapacity(c) <= MaxCapacity
    /\ \E ok \in AllocOutcomes(ReachesRealloc(Target(t), c)),
          g \in (IF NodeCapacity(c) > 2 * capacity(Target(t))
                 THEN Garbage ELSE {Zero}) :
         LET r == resize(WithJunk(Target(t), g), c, ok)
         IN Mutate("resize", c, t, r, Untouched, ~ok)

CClear(t) ==
    LET r == [h |-> clear(Target(t)), ret |-> TRUE]
    IN Mutate("clear", Zero, t, r, Untouched, FALSE)

CopyOf ==
    /\ phase = "single"
    /\ ~heap.oob
    /\ \E cpy \in BOOLEAN, ok_heap \in BOOLEAN, ok_buffer \in BOOLEAN,
          g \in Garbage :
         LET r == copy_of(WithJunk(heap, g), cpy, ok_heap, ok_buffer)
         IN /\ heap' = Settle(r.h)
            /\ ret' = r.ret
            /\ other' = IF r.ret THEN r.copy ELSE other
            /\ alias' = r.alias
            /\ phase' = IF r.ret THEN "pair" ELSE phase
            /\ nomem' = ~(ok_heap /\ ok_buffer)
    /\ op' = "copy_of"
    /\ arg' = Zero
    /\ result' = Untouched
    /\ on' = 1
    /\ after' = 0
    /\ UNCHANGED <<pre, bag, net, queueOnly, out, iter>>

Equals ==
    /\ phase = "pair"
    /\ ~heap.oob /\ ~other.oob
    /\ ret' = equals(heap, other).ret
    /\ op' = "equals"
    /\ arg' = Zero
    /\ result' = Untouched
    /\ nomem' = FALSE
    /\ UNCHANGED <<heap, other, pre, bag, net, queueOnly, phase, out, iter,
                   alias, after, on>>

CopyNext ==
    \/ \E t \in Targets, e \in Values : CInsert(t, e)
    \/ \E t \in Targets : CRemoveMin(t)
    \/ \E t \in Targets : CRemoveMax(t)
    \/ \E t \in Targets, e \in Values : CUpdateMin(t, e)
    \/ \E t \in Targets, e \in Values : CUpdateMax(t, e)
    \/ \E t \in Targets, c \in 0..MaxResize : CResize(t, c)
    \/ \E t \in Targets : CClear(t)
    \/ CopyOf
    \/ Equals

SpecCopy == CopyInit /\ [][CopyNext]_vars

\* ------------------------------------------------------------ cursor calls
\* A cursor on a heap of 0..MaxIterCount elements that no call mutates.
IterHeap(n, f) == IF n = 0 THEN new(1) ELSE HeapOf(n, f)

IterInit ==
    /\ \E n \in 0..MaxIterCount : \E f \in [0..(n - 1) -> Values] :
         /\ heap = IterHeap(n, f)
         /\ Valid(heap)
    /\ result = Untouched
    /\ ret = TRUE
    /\ op = "iter_init"
    /\ nomem = FALSE
    /\ arg = Zero
    /\ pre = heap
    /\ bag = Stored(heap)
    /\ net = count(heap)
    /\ queueOnly = FALSE
    /\ phase = "cursor"
    /\ out = <<>>
    /\ iter = iter_init(heap)
    /\ other = heap
    /\ alias = FALSE
    /\ after = 0
    /\ on = 1

\* The part of a step every cursor call shares: ph and o are the phase and
\* the record of the walk afterwards.
IterCall(name, it, r, a, res, ph, o) ==
    /\ phase \in {"cursor", "walk"}
    /\ iter' = it
    /\ ret' = r
    /\ op' = name
    /\ arg' = a
    /\ result' = res
    /\ phase' = ph
    /\ out' = o
    /\ UNCHANGED <<heap, nomem, pre, bag, net, queueOnly, other, alias, after, on>>

ItInit == IterCall("iter_init", iter_init(heap), TRUE, Zero, Untouched, "cursor", <<>>)

ItToStart ==
    IterCall("iter_to_start", iter_to_start(iter, heap), TRUE, Zero, Untouched,
             "walk", <<>>)

ItToEnd ==
    IterCall("iter_to_end", iter_to_end(iter, heap), TRUE, Zero, Untouched,
             "cursor", <<>>)

\* The walk records the first count + 1 calls of iter_next after iter_to_start.
ItNext ==
    LET r == iter_next(iter, heap)
        walking == phase = "walk" /\ Len(out) <= count(heap)
    IN IterCall("iter_next", r.it, r.ret, Zero, Untouched,
                IF walking THEN "walk" ELSE "cursor",
                IF walking THEN Append(out, r.ret) ELSE <<>>)

ItPrev ==
    LET r == iter_prev(iter, heap)
    IN IterCall("iter_prev", r.it, r.ret, Zero, Untouched, "cursor", <<>>)

ItAdvance(steps) ==
    LET r == iter_advance(iter, heap, steps)
    IN IterCall("iter_advance", r.it, r.ret, steps, Untouched, "cursor", <<>>)

ItRewind(steps) ==
    LET r == iter_rewind(iter, heap, steps)
    IN IterCall("iter_rewind", r.it, r.ret, steps, Untouched, "cursor", <<>>)

ItGoTo(index) ==
    LET r == iter_go_to(iter, heap, index)
    IN IterCall("iter_go_to", r.it, r.ret, index, Untouched, "cursor", <<>>)

ItValue ==
    IterCall("iter_value", iter, TRUE, Zero, iter_value(iter, heap), phase, out)

ItIndex ==
    IterCall("iter_index", iter, TRUE, Zero, iter_index(iter), phase, out)

IterNext ==
    \/ ItInit
    \/ ItToStart
    \/ ItToEnd
    \/ ItNext
    \/ ItPrev
    \/ \E steps \in 0..(MaxIterCount + 1) : ItAdvance(steps)
    \/ \E steps \in 0..(MaxIterCount + 1) : ItRewind(steps)
    \/ \E index \in 0..(MaxIterCount + 1) : ItGoTo(index)
    \/ ItValue
    \/ ItIndex

SpecIter == IterInit /\ [][IterNext]_vars

\* ---------------------------------------------------------------- lifetime
\* Heaps are made by new_custom with callbacks supplied, used, cleared and
\* freed. phase is "none" while there is no heap and "single" while there is
\* one; out lists what the last clear or free did.
NoHeap ==
    [buffer |-> [i \in {} |-> <<Zero, Zero>>],
     capacity |-> 0,
     size |-> 0,
     count |-> 0,
     oob |-> FALSE,
     junk |-> Zero]

NewCaps == (0..MaxNewCap) \cup {UINT64_MAX - 1, UINT64_MAX}

LifeInit ==
    /\ heap = NoHeap
    /\ result = Untouched
    /\ ret = TRUE
    /\ op = "start"
    /\ nomem = FALSE
    /\ arg = Zero
    /\ pre = heap
    /\ bag = EmptyBag
    /\ net = 0
    /\ queueOnly = FALSE
    /\ phase = "none"
    /\ out = <<>>
    /\ iter = iter_init(heap)
    /\ other = heap
    /\ alias = FALSE
    /\ after = 0
    /\ on = 1

NewCustom ==
    /\ phase = "none"
    /\ \E cap \in NewCaps, f_val \in BOOLEAN :
         \E ok_heap \in AllocOutcomes(cap # 0 /\ cap # UINT64_MAX /\ f_val) :
           \E ok_buffer \in AllocOutcomes(cap # 0 /\ cap # UINT64_MAX /\ f_val
                                          /\ ok_heap) :
             LET r == new_custom(cap, f_val, ok_heap, ok_buffer)
             IN /\ heap' = IF r.ret THEN r.h ELSE heap
                /\ ret' = r.ret
                /\ phase' = IF r.ret THEN "single" ELSE phase
                /\ op' = IF f_val THEN "new_custom" ELSE "new_custom(NULL)"
                /\ arg' = cap
                /\ nomem' = ~(ok_heap /\ ok_buffer)
    /\ result' = Untouched
    /\ out' = <<>>
    /\ UNCHANGED <<pre, bag, net, queueOnly, iter, other, alias, after, on>>

LifeCall(name, h, ph, events) ==
    /\ phase = "single"
    /\ ~heap.oob
    /\ heap' = h
    /\ phase' = ph
    /\ out' = events
    /\ op' = name
    /\ ret' = TRUE
    /\ arg' = Zero
    /\ result' = Untouched
    /\ nomem' = FALSE
    /\ UNCHANGED <<pre, bag, net, queueOnly, iter, other, alias, after, on>>

LClear ==
    \E has_free \in BOOLEAN :
      LifeCall("clear", clear(heap), "single", clear_events(heap, has_free))

LFree ==
    \E has_free \in BOOLEAN :
      LifeCall("free", heap, "none", free_events(heap, has_free))

LifeNext ==
    \/ NewCustom
    \/ \E e \in Values : CInsert(1, e)
    \/ CRemoveMin(1)
    \/ CRemoveMax(1)
    \/ LClear
    \/ LFree

SpecLife == LifeInit /\ [][LifeNext]_vars

\* ---------------------------------------------------------------- traversal
\* The two loops over a heap that is not mutated:
\*   for (iter_to_start(&it); !iter_end(&it); iter_next(&it)) iter_value(&it)
\*   for (iter_to_end(&it); !iter_start(&it); iter_prev(&it)) iter_value(&it)
\* out lists the positions read. A loop is followed for count + 1 rounds.
LoopCall(name, it, r, res, ph, o) ==
    /\ iter' = it
    /\ ret' = r
    /\ op' = name
    /\ result' = res
    /\ phase' = ph
    /\ out' = o
    /\ UNCHANGED <<heap, nomem, arg, pre, bag, net, queueOnly, other, alias,
                   after, on>>

LoopForward ==
    /\ phase = "cursor"
    /\ LoopCall("iter_to_start", iter_to_start(iter, heap), TRUE, Untouched,
                "forward", <<>>)

LoopBackward ==
    /\ phase = "cursor"
    /\ LoopCall("iter_to_end", iter_to_end(iter, heap), TRUE, Untouched,
                "backward", <<>>)

StepForward ==
    /\ phase = "forward"
    /\ ~iter_end(iter, heap)
    /\ Len(out) <= count(heap)
    /\ LET r == iter_next(iter, heap)
       IN LoopCall("iter_next", r.it, r.ret, iter_value(iter, heap), phase,
                   Append(out, iter_index(iter)))

EndForward ==
    /\ phase = "forward"
    /\ iter_end(iter, heap)
    /\ LoopCall("iter_end", iter, TRUE, result, "forward done", out)

StepBackward ==
    /\ phase = "backward"
    /\ ~iter_start(iter, heap)
    /\ Len(out) <= count(heap)
    /\ LET r == iter_prev(iter, heap)
       IN LoopCall("iter_prev", r.it, r.ret, iter_value(iter, heap), phase,
                   Append(out, iter_index(iter)))

EndBackward ==
    /\ phase = "backward"
    /\ iter_start(iter, heap)
    /\ LoopCall("iter_start", iter, TRUE, result, "backward done", out)

LoopNext ==
    \/ LoopForward
    \/ LoopBackward
    \/ StepForward
    \/ EndForward
    \/ StepBackward
    \/ EndBackward

\* The loops are sequential code: a loop that can take a step takes it.
SpecLoop == IterInit /\ [][LoopNext]_vars /\ WF_vars(LoopNext)

\* ------------------------------------------------------------ stale cursors
\* Calls on a cursor between structural calls on its heap. The cursor is the
\* one made by iter_init on the fresh heap.
StaleCall(name, it, r, a, res, h) ==
    /\ phase = "main"
    /\ ~heap.oob
    /\ iter' = it
    /\ ret' = r
    /\ op' = name
    /\ arg' = a
    /\ result' = res
    /\ heap' = h
    /\ UNCHANGED <<nomem, pre, bag, net, queueOnly, phase, out, other, alias,
                   after, on>>

StInit == StaleCall("iter_init", iter_init(heap), TRUE, Zero, Untouched, heap)

StToStart ==
    StaleCall("iter_to_start", iter_to_start(iter, heap), TRUE, Zero, Untouched,
              heap)

StToEnd ==
    StaleCall("iter_to_end", iter_to_end(iter, heap), TRUE, Zero, Untouched, heap)

\* A stale cursor can move on without end: the calls that move it forward are
\* followed up to index MaxCount.
StNext ==
    LET r == iter_next(iter, heap)
    IN r.it.cursor <= MaxCount /\ StaleCall("iter_next", r.it, r.ret, Zero, Untouched, heap)

StPrev ==
    LET r == iter_prev(iter, heap)
    IN StaleCall("iter_prev", r.it, r.ret, Zero, Untouched, heap)

StAdvance(steps) ==
    LET r == iter_advance(iter, heap, steps)
    IN r.it.cursor <= MaxCount /\ StaleCall("iter_advance", r.it, r.ret, steps, Untouched, heap)

StRewind(steps) ==
    LET r == iter_rewind(iter, heap, steps)
    IN StaleCall("iter_rewind", r.it, r.ret, steps, Untouched, heap)

StGoTo(index) ==
    LET r == iter_go_to(iter, heap, index)
    IN r.it.cursor <= MaxCount /\ StaleCall("iter_go_to", r.it, r.ret, index, Untouched, heap)

\* iter_value reads the node of the cursor unless the heap is empty; what a
\* read outside the buffer returns is anything.
StValue ==
    LET node == iter.cursor \div 2
        inside == empty(heap) \/ node \in DOMAIN heap.buffer
    IN \E g \in (IF inside THEN {Zero} ELSE Garbage) :
         StaleCall("iter_value", iter, TRUE, Zero,
                   iter_value(iter, WithJunk(heap, g)),
                   IF empty(heap) THEN heap ELSE Touch(heap, node))

StaleNext ==
    \/ \E e \in Values : Insert(e)
    \/ RemoveMin
    \/ RemoveMax
    \/ \E c \in 0..MaxResize : Resize(c)
    \/ Clear
    \/ StInit
    \/ StToStart
    \/ StToEnd
    \/ StNext
    \/ StPrev
    \/ \E steps \in 0..MaxCount : StAdvance(steps)
    \/ \E steps \in 0..MaxCount : StRewind(steps)
    \/ \E index \in 0..MaxCount : StGoTo(index)
    \/ StValue

SpecStale == Init /\ [][StaleNext]_vars

\* ------------------------------------------------------------ properties
Removals == {"remove_min", "remove_max"}

Repeat(v, n) == [i \in 1..n |-> v]

\* The elements of a multiset in non-decreasing and in non-increasing order.
Ascending(b) ==
    LET RECURSIVE Asc(_)
        Asc(v) == IF v > MaxVal + 1 THEN <<>>
                  ELSE Repeat(v, b[v]) \o Asc(v + 1)
    IN Asc(1)

Descending(b) ==
    LET RECURSIVE Desc(_)
        Desc(v) == IF v < 1 THEN <<>>
                   ELSE Repeat(v, b[v]) \o Desc(v - 1)
    IN Desc(MaxVal + 1)

\* C1: in a sequence of insert, remove_min and remove_max calls (peeks and
\* contains interleaved), every successful remove_min returns the minimum and
\* every successful remove_max the maximum of the elements inserted and not
\* yet removed.
C1_RemoveReturnsExtreme ==
    [][(queueOnly' /\ op' \in Removals /\ ret')
         => /\ BagElems(bag) # {}
            /\ result' = IF op' = "remove_min" THEN BagMin(bag) ELSE BagMax(bag)]_vars

\* C2: while a fresh heap receives inserts only, after every insert peek_min
\* succeeds with a value at most every inserted element, and peek_max
\* succeeds with a value at least every inserted element.
C2_PeeksBoundInserted ==
    (phase = "insert" /\ op = "insert")
      => LET lo == min(heap, Untouched)
             hi == max(heap, Untouched)
         IN /\ lo.ret
            /\ hi.ret
            /\ \A v \in BagElems(bag) : lo.result <= v /\ v <= hi.result

C2_Witness ==
    /\ phase = "insert"
    /\ op = "insert"
    /\ count(heap) = MaxSortCount
    /\ capacity(heap) > MaxNewCap
    /\ Cardinality(BagElems(bag)) = MaxVal + 1

\* C3: inserting a sequence and then calling remove_min until it fails
\* yields the inserted elements in non-decreasing order.
C3_DrainMinSorts == phase = "min_done" => out = Ascending(bag)

\* C4: inserting a sequence and then calling remove_max until it fails
\* yields the inserted elements in non-increasing order.
C4_DrainMaxSorts == phase = "max_done" => out = Descending(bag)

\* C5: whenever the heap holds exactly one element (also one inserted after
\* removals emptied the heap), peek_max and peek_min both succeed and return
\* that element.
C5_SingleElementPeeks ==
    (queueOnly /\ count(heap) = 1 /\ BagSize(bag) = 1)
      => /\ max(heap, Untouched) =
              [h |-> heap, ret |-> TRUE, result |-> BagMax(bag)]
         /\ min(heap, Untouched) =
              [h |-> heap, ret |-> TRUE, result |-> BagMin(bag)]

\* C6: count equals the number of successful inserts minus the number of
\* successful removals (counted from the last clear), whatever failed calls,
\* peeks, updates, contains and resizes come in between, and
\* 0 <= count <= 2 * size.
C6_CountIsInsertsMinusRemovals ==
    /\ count(heap) = net
    /\ 0 <= count(heap)
    /\ count(heap) <= 2 * heap.size

C6_Witness ==
    /\ op \in Removals
    /\ ret
    /\ ~queueOnly
    /\ net = 2
    /\ heap.size = 1

EmptyFailing ==
    {"remove_min", "remove_max", "update_min", "update_max", "min", "max"}

\* C7: on a heap with count 0, remove_min, remove_max, update_min,
\* update_max, peek_min and peek_max return failure and change neither the
\* heap nor the caller's result variable.
C7_EmptyCallsFail ==
    [][(phase = "main" /\ count(heap) = 0 /\ op' \in EmptyFailing)
         => /\ ret' = FALSE
            /\ heap' = heap
            /\ result' = Untouched]_vars

C7_Witness ==
    /\ op = "remove_min"
    /\ ~ret
    /\ result = Untouched
    /\ count(heap) = 0
    /\ heap.size >= 1

\* C8: from a heap with count >= 1 that satisfies the invariants (a)-(d),
\* update_min(e) with any e succeeds, keeps count, leaves the old elements
\* with one occurrence of the old minimum replaced by e, keeps the invariants
\* (a)-(c), and peek_min then returns the minimum of the new elements.
C8_UpdateMinReplacesMinimum ==
    (phase = "done" /\ op = "update_min")
      => /\ ret
         /\ count(heap) = count(pre)
         /\ Stored(heap) = BagAdd(BagDel(Stored(pre), BagMin(Stored(pre))), arg)
         /\ InvA(heap) /\ InvB(heap) /\ InvC(heap)
         /\ min(heap, Untouched).ret
         /\ min(heap, Untouched).result = BagMin(Stored(heap))

C8_Witness ==
    /\ phase = "done"
    /\ op = "update_min"
    /\ count(pre) >= 4
    /\ arg > BagMax(Stored(pre))
    /\ BagMin(Stored(pre)) < BagMax(Stored(pre))

\* C9: from a heap with count >= 1 that satisfies the invariants (a)-(d),
\* update_max(e) with any e succeeds, keeps count, leaves the old elements
\* with one occurrence of the old maximum replaced by e, keeps the invariants
\* (a)-(c), and peek_max then returns the maximum of the new elements.
C9_UpdateMaxReplacesMaximum ==
    (phase = "done" /\ op = "update_max")
      => /\ ret
         /\ count(heap) = count(pre)
         /\ Stored(heap) = BagAdd(BagDel(Stored(pre), BagMax(Stored(pre))), arg)
         /\ InvA(heap) /\ InvB(heap) /\ InvC(heap)
         /\ max(heap, Untouched).ret
         /\ max(heap, Untouched).result = BagMax(Stored(heap))

C9_Witness ==
    /\ phase = "done"
    /\ op = "update_max"
    /\ count(pre) >= 3
    /\ count(pre) % 2 = 1
    /\ arg < BagMin(Stored(pre))
    /\ BagMin(Stored(pre)) < BagMax(Stored(pre))

\* C10: an insert on a full heap during which the reallocation fails returns
\* failure and leaves the heap unchanged.
C10_FailedGrowthKeepsHeap ==
    [][(op' = "insert" /\ nomem')
         => /\ full(heap)
            /\ ret' = FALSE
            /\ heap' = heap]_vars

C10_Witness ==
    /\ op = "insert"
    /\ nomem
    /\ ~ret
    /\ count(heap) >= 2

\* C11: resize(c) with c < count returns failure and leaves the heap (count,
\* capacity, every stored element, hence the answers of peek_min, peek_max
\* and count) unchanged.
C11_ShrinkBelowCountFails ==
    [][(op' = "resize" /\ arg' < count(heap))
         => /\ ret' = FALSE
            /\ heap' = heap
            /\ min(heap', Untouched) = min(heap, Untouched)
            /\ max(heap', Untouched) = max(heap, Untouched)]_vars

Growing == {"insert", "remove_min", "remove_max"}

\* C12 (as stated): an insert that finds the heap full and grows it leaves
\* the capacity 4 times what it was; insert and the removals never reduce
\* the capacity.
C12_GrowthQuadruples ==
    [][/\ (op' = "insert" /\ ret' /\ full(heap))
            => capacity(heap') = 4 * capacity(heap)
       /\ op' \in Growing => capacity(heap') >= capacity(heap)]_vars

\* C12 (amended): an insert that finds the heap full and grows it leaves the
\* capacity 2 times what it was (in nodes, and so in elements); insert and
\* the removals never reduce the capacity.
C12_GrowthDoubles ==
    [][/\ (op' = "insert" /\ ret' /\ full(heap))
            => capacity(heap') = 2 * capacity(heap)
       /\ op' \in Growing => capacity(heap') >= capacity(heap)]_vars

C12_Witness ==
    /\ op = "insert"
    /\ ret
    /\ count(heap) = 9
    /\ capacity(heap) = 8

\* C13: contains(e) returns true exactly when an element inserted and not
\* yet removed equals e, and does not modify the heap.
C13_ContainsFindsStored ==
    [][(queueOnly' /\ op' = "contains")
         => /\ ret' <=> bag[arg'] > 0
            /\ heap' = heap]_vars

\* C17 (as stated): on a heap of n >= 1 elements, of the n + 1 calls of
\* iter_next after iter_to_start only call n + 1 returns false, and the cursor
\* is not at the end before it has reached index n - 1.
C17_FalseOnlyOnLastCall ==
    (phase = "walk" /\ count(heap) >= 1)
      => /\ \A k \in 1..Len(out) : out[k] = (k <= count(heap))
         /\ iter_end(iter, heap) => iter.cursor = count(heap) - 1

\* C17 (amended): on a heap of n >= 1 elements, the calls of iter_next after
\* iter_to_start return true on calls 1..n-1 and false on calls n and n + 1;
\* call n finds the cursor on the last index n - 1, sets end and does not
\* move, so the cursor is at the end exactly from call n on.
C17_WalkReturns ==
    (phase = "walk" /\ count(heap) >= 1)
      => /\ \A k \in 1..Len(out) : out[k] = (k < count(heap))
         /\ iter_end(iter, heap) <=> Len(out) >= count(heap)
         /\ iter_index(iter) = IF Len(out) < count(heap) THEN Len(out)
                                ELSE count(heap) - 1

C17_Witness ==
    /\ phase = "walk"
    /\ count(heap) = 3
    /\ Len(out) = 4
    /\ op = "iter_next"

\* C18: iter_go_to(i) returns true exactly when i < count; then iter_index
\* returns i and iter_value the element of buffer position i; when it returns
\* false the position is unchanged.
C18_SeekReachesIndex ==
    [][op' = "iter_go_to"
         => /\ ret' <=> arg' < count(heap)
            /\ ret' => /\ iter_index(iter') = arg'
                        /\ iter_value(iter', heap) = Slot(heap, arg')
            /\ ~ret' => iter_index(iter') = iter_index(iter)]_vars

\* C19: iter_advance(steps) returns false without moving exactly when steps
\* is 0, or the cursor is at the end, or cursor + steps would pass the last
\* index count - 1; otherwise (also from the start) it returns true and the
\* position grows by steps.
C19_AdvanceMoves ==
    [][op' = "iter_advance"
         => LET refuse == \/ arg' = 0
                          \/ iter_end(iter, heap)
                          \/ iter_index(iter) + arg' > count(heap) - 1
            IN /\ refuse => ~ret' /\ iter_index(iter') = iter_index(iter)
               /\ ~refuse => ret' /\ iter_index(iter') = iter_index(iter) + arg']_vars

\* C20: iter_rewind(steps) returns false without moving exactly when steps is
\* 0, or the cursor is at the start, or steps is greater than the position;
\* otherwise it returns true, the position shrinks by steps and the cursor is
\* not at the end.
C20_RewindMoves ==
    [][op' = "iter_rewind"
         => LET refuse == \/ arg' = 0
                          \/ iter_start(iter, heap)
                          \/ arg' > iter_index(iter)
            IN /\ refuse => ~ret' /\ iter_index(iter') = iter_index(iter)
               /\ ~refuse => /\ ret'
                              /\ iter_index(iter') = iter_index(iter) - arg'
                              /\ ~iter_end(iter', heap)]_vars

C20_Witness ==
    /\ op = "iter_rewind"
    /\ ret
    /\ arg = 2
    /\ iter_index(iter) = 1
    /\ ~iter_end(iter, heap)

\* ------------------------------------------------------- C14 (SpecCopy)
\* C14: equals on a heap and its copy returns true as long as neither of
\* the two has been mutated since the copy was made, the empty heap included.
C14_CopyEqualsOriginal ==
    (phase = "pair" /\ after = 0 /\ op = "equals") => ret

\* ------------------------------------------------------- C15 (SpecCopy)
AllPositionsEqual(h1, h2) ==
    /\ count(h1) = count(h2)
    /\ \A i \in 0..(count(h1) - 1) : cmp(Slot(h1, i), Slot(h2, i)) = 0

\* C15: equals returns true exactly when the two heaps have the same count
\* and compare equal at every buffer position below it, so it returns false
\* for heaps that agree at one position and differ at another.
C15_EqualsIsAllPositions ==
    op = "equals" => (ret <=> AllPositionsEqual(heap, other))

\* ------------------------------------------------------- C16 (SpecCopy)
Mutators ==
    {"insert", "remove_min", "remove_max", "update_min", "update_max",
     "clear", "resize"}

SameStored(a, b) ==
    /\ count(a) = count(b)
    /\ \A i \in 0..(count(b) - 1) : Slot(a, i) = Slot(b, i)

\* C16: a successful copy_of returns a heap with the count, size and
\* capacity of the source and its element at every position below count; a
\* copy_of in which an allocation fails returns no heap and leaves the source
\* as it was; and a later insert, remove, update, clear or resize on one of
\* the two heaps leaves the count and the stored elements of the other as
\* they were.
C16_CopyIsIndependent ==
    [][/\ (op' = "copy_of" /\ ret')
            => /\ SameStored(other', heap)
               /\ other'.size = heap.size
               /\ capacity(other') = capacity(heap)
       /\ (op' = "copy_of" /\ nomem') => (~ret' /\ heap' = heap /\ phase' = phase)
       /\ (phase = "pair" /\ op' \in Mutators /\ on' = 1)
            => SameStored(other', other)
       /\ (phase = "pair" /\ op' \in Mutators /\ on' = 2)
            => SameStored(heap', heap)]_vars

\* A copy of a two-element heap whose source then lost an element.
C16_Witness ==
    /\ phase = "pair"
    /\ after = 1
    /\ on = 1
    /\ op \in {"remove_min", "remove_max"}
    /\ ret
    /\ count(other) = 2
    /\ count(heap) = 1

\* ------------------------------------------------------- C21 (SpecIter)
\* What C21 says of a call that moved the cursor by d and was to clear the
\* flag named left.
MovedByOne(d, left) ==
    /\ ret' <=> (iter'.cursor # iter.cursor)
    /\ ret' => (iter'.cursor = iter.cursor + d /\ ~left)
    /\ ~ret' => iter'.cursor = iter.cursor

\* C21: on a heap that is not mutated, iter_next and iter_prev return true
\* exactly when the position changed; the position then changed by +1 for
\* iter_next and by -1 for iter_prev, and the flag of the boundary left
\* behind (start for iter_next, end for iter_prev) is false afterwards; when
\* they return false the position is the one before the call.
C21_StepMovesByOne ==
    [][/\ op' = "iter_next"
            => MovedByOne(1, iter'.start \/ iter_start(iter', heap'))
       /\ op' = "iter_prev"
            => MovedByOne(-1, iter'.end \/ iter_end(iter', heap'))]_vars

\* iter_prev stepped back from the last of three elements.
C21_Witness ==
    /\ op = "iter_prev"
    /\ ret
    /\ count(heap) = 3
    /\ iter.cursor = 1
    /\ ~iter.end

\* ------------------------------------------------------- C22 (SpecIter)
\* C22: in every state of a cursor on a heap that is not mutated, the stored
\* flags start and end are both true only if the heap is empty, heaps of
\* one element included.
C22_BothFlagsOnlyWhenEmpty ==
    (iter.start /\ iter.end) => count(heap) = 0

\* C22, amended: the stored flags start and end are both true only if the
\* heap holds at most one element.
C22_BothFlagsOnlyBelowTwo ==
    (iter.start /\ iter.end) => count(heap) <= 1

\* iter_next on the only element of a heap set end and left start set.
C22_Witness ==
    /\ op = "iter_next"
    /\ count(heap) = 1
    /\ iter.start
    /\ iter.end

\* ------------------------------------------------------- C24 (SpecIter)
\* C24: iter_init sets position 0, start true and end to whether the heap is
\* empty. On a non-empty heap iter_to_start sets position 0 with start true
\* and end false, and iter_to_end sets position count - 1 with end true and
\* start false; on an empty heap the two change nothing.
C24_InitAndJumps ==
    [][/\ op' = "iter_init"
            => iter' = [cursor |-> 0, start |-> TRUE, end |-> (count(heap) = 0)]
       /\ (op' = "iter_to_start" /\ count(heap) > 0)
            => iter' = [cursor |-> 0, start |-> TRUE, end |-> FALSE]
       /\ (op' = "iter_to_end" /\ count(heap) > 0)
            => iter' = [cursor |-> count(heap) - 1, start |-> FALSE, end |-> TRUE]
       /\ (op' \in {"iter_to_start", "iter_to_end"} /\ count(heap) = 0)
            => iter' = iter]_vars

\* iter_to_start was called on a cursor of a three-element heap.
C24_Witness ==
    /\ op = "iter_to_start"
    /\ count(heap) = 3
    /\ iter = [cursor |-> 0, start |-> TRUE, end |-> FALSE]

\* ------------------------------------------------------ C23 (SpecStale)
\* C23: whatever structural calls (insert, remove_min, remove_max, clear,
\* resize) come between the calls on a cursor, iter_next and iter_advance
\* never move the cursor to an index at or past count, and iter_value reads
\* no slot at or past count of a non-empty heap and no node outside the
\* buffer.
C23_StaleCursorStaysInside ==
    /\ (op \in {"iter_next", "iter_advance"} /\ ret) => iter.cursor < count(heap)
    /\ op = "iter_value"
         => /\ ~heap.oob
            /\ count(heap) > 0 => iter.cursor < count(heap)

\* ------------------------------------------------------- C25 (SpecLife)
Times(x, s) == Cardinality({i \in DOMAIN s : s[i] = x})

\* The call did first and last, and only then, what before_ and after_ name.
Around(before_, after_) ==
    /\ Len(out) >= 2
    /\ out[1] = before_
    /\ out[Len(out)] = after_
    /\ Times(before_, out) = 1
    /\ Times(after_, out) = 1

\* C25: on a heap with callbacks supplied, clear calls before_clear before
\* it changes anything and after_clear when it is done, free calls
\* before_free before it releases anything and after_free when it is done,
\* and each of them is called exactly once in the call.
C25_CallbacksAroundClearAndFree ==
    /\ op = "clear" => Around("before_clear", "after_clear")
    /\ op = "free" => Around("before_free", "after_free")

\* ------------------------------------------------------- C26 (SpecLife)
\* C26: new fails and makes no heap when the capacity is 0 or the largest
\* representable one, or when an allocation fails; every other call returns
\* an empty heap (count 0, size 0) of ceil(capacity / 2) nodes.
C26_NewChecksCapacity ==
    [][op' = "new_custom"
         => /\ ret' <=> ~(arg' = 0 \/ arg' = UINT64_MAX \/ nomem')
            /\ ret' => /\ count(heap') = 0
                       /\ heap'.size = 0
                       /\ 2 * capacity(heap') \in {arg', arg' + 1}
                       /\ DOMAIN heap'.buffer = 0..(capacity(heap') - 1)
            /\ ~ret' => (heap' = heap /\ phase' = "none")]_vars

\* new returned a heap for the largest capacity it accepts.
C26_Witness ==
    /\ op = "new_custom"
    /\ ret
    /\ arg = UINT64_MAX - 1
    /\ capacity(heap) = 2 ^ (Width - 1) - 1

\* ----------------------------------------------------------- C27 (Spec)
\* The nodes in use whose second slot is not below count.
MissingHigh(h) == {i \in 0..(h.size - 1) : 2 * i + 1 >= h.count}

\* C27: in every state the public operations reach, count is 2 * size - 1
\* or 2 * size (so size is 0 when count is 0), and the only node in use that
\* can lack its high slot is the last one, when count is odd.
C27_CountFillsNodes ==
    /\ heap.count \in {2 * heap.size - 1, 2 * heap.size}
    /\ MissingHigh(heap) \subseteq {heap.size - 1}
    /\ MissingHigh(heap) # {} => heap.count % 2 = 1

\* -------------------------------------------------------- C28 (SpecIns)
\* C28: after every successful insert, on heaps of five or more nodes too,
\* the low of the tree parent of every node in use but the root is at most
\* the low of the node.
C28_InsertKeepsMinHeap ==
    (op = "insert" /\ ret) => InvB(heap)

\* ------------------------------------------------------- C29 (SpecSort)
Successful ==
    /\ op \in {"insert", "remove_min", "remove_max", "update_min", "update_max"}
    /\ ret

\* C29: after every successful insert, remove_min, remove_max, update_min
\* and update_max the high of the tree parent of every node in use but the
\* root is at least the high of the node, the low of a last node with one
\* element standing in for its high.
C29_MaxHeapAfterEveryCall ==
    Successful => InvC(heap)

\* ------------------------------------------------------- C30 (SpecSort)
\* C30: after every successful insert, remove_min, remove_max, update_min
\* and update_max every node in use that holds two elements has its low at
\* most its high.
C30_LowAtMostHigh ==
    Successful => InvA(heap)

\* -------------------------------------------------------- C31 (SpecIns)
\* C31: when more than two elements are stored once the new one is placed,
\* insert chooses its float-up by the tree parent of the receiving node
\* size - 1, the node (size - 2) / 2: float_up_min exactly when the element
\* is below that node's low, float_up_max exactly when it is above that
\* node's high, never both, whichever child the receiving node is.
C31_DispatchUsesTreeParent ==
    [][(op' = "insert" /\ ret' /\ count(heap') > 2)
         => \A e \in AllValues :
              bag' = BagAdd(bag, e)
                => LET h == Placed(heap, e, TRUE)
                   IN FloatUpChoice(h, e) = ChoiceAt(h, Parent(h.size - 1), e)]_vars

\* ----------------------------------------------------------- C32 (Spec)
\* C32: in every state that new, insert, remove_min, remove_max, update_min,
\* update_max, clear and resize reach (resize to a smaller capacity and
\* resize to 0 of an empty heap included), 0 <= size <= capacity, so that
\* every node in use lies in the allocated storage.
C32_SizeWithinCapacity ==
    /\ 0 <= heap.size
    /\ heap.size <= heap.capacity
    /\ \A i \in 0..(heap.size - 1) : i \in DOMAIN heap.buffer

\* ----------------------------------------------------------- C33 (Spec)
\* C33: a successful resize that changes the node capacity from N to M
\* zero-fills the nodes N .. M - 1 and nothing else: it writes no slot at or
\* behind M, changes no node below N and leaves no added node unfilled,
\* whatever the factor of the growth, and when it shrinks (M < N).
C33_ResizeFillsAddedNodes ==
    [][(op' = "resize" /\ ret' /\ capacity(heap') # capacity(heap))
         => LET N == capacity(heap)
                M == capacity(heap')
            IN /\ ~heap'.oob
               /\ DOMAIN heap'.buffer = 0..(M - 1)
               /\ \A i \in N..(M - 1) : heap'.buffer[i] = <<Zero, Zero>>
               /\ \A i \in 0..(M - 1) :
                    (i < N /\ i \in DOMAIN heap.buffer)
                      => heap'.buffer[i] = heap.buffer[i]]_vars

\* ----------------------------------------------------------- C34 (Spec)
\* C34: in every reachable state full returns true exactly when size equals
\* capacity and count is even, which is exactly when no element slot is free
\* (count = 2 * capacity); so full is false for a heap without elements and
\* with a capacity of at least 1.
C34_FullMeansNoFreeSlot ==
    /\ full(heap) <=> (heap.size = heap.capacity /\ heap.count % 2 = 0)
    /\ full(heap) <=> count(heap) = 2 * capacity(heap)
    /\ (count(heap) = 0 /\ capacity(heap) >= 1) => ~full(heap)

\* ------------------------------------------------------- C35 (SpecIter)
\* C35: on a non-empty heap that is not mutated, every state of the cursor
\* that iter_to_start, iter_to_end, iter_next, iter_prev, iter_advance,
\* iter_rewind and iter_go_to reach has its position in 0 .. count - 1.
C35_PositionBelowCount ==
    count(heap) > 0 => iter.cursor \in 0..(count(heap) - 1)

\* iter_next reached the last of three elements.
C35_Witness ==
    /\ op = "iter_next"
    /\ ret
    /\ count(heap) = 3
    /\ iter.cursor = 2

\* ----------------------------------------------------- C36 (SpecRemove)
\* C36: from a heap of two or more elements that satisfies the invariants
\* (a)-(d), remove_min returns the minimum of the stored elements, removes
\* one occurrence of it and leaves a heap that satisfies (a)-(d) with
\* size = ceil(count / 2).
C36_RemoveMinFromValid ==
    (phase = "done" /\ op = "remove_min" /\ count(pre) >= 2)
      => /\ ret
         /\ result = BagMin(Stored(pre))
         /\ count(heap) = count(pre) - 1
         /\ Stored(heap) = BagDel(Stored(pre), BagMin(Stored(pre)))
         /\ Valid(heap)

\* remove_min took the minimum from a heap of seven elements, not all equal.
C36_Witness ==
    /\ phase = "done"
    /\ op = "remove_min"
    /\ ret
    /\ count(pre) = 7
    /\ result < BagMax(Stored(pre))

\* ----------------------------------------------------- C37 (SpecRemove)
\* remove_max on six elements left the last node with one element, and that
\* node was the child float_down_max compared the root with.
C37_Witness ==
    /\ phase = "done"
    /\ op = "remove_max"
    /\ ret
    /\ count(pre) = 6
    /\ count(heap) = 5
    /\ pre.buffer[2][1] > pre.buffer[1][2]

\* C37: from a heap of two or more elements that satisfies the invariants
\* (a)-(d), remove_max returns the maximum of the stored elements, removes
\* one occurrence of it and leaves a heap that satisfies (a)-(d) with
\* size = ceil(count / 2); the child chosen on the way down may be the last
\* node with one element.
C37_RemoveMaxFromValid ==
    (phase = "done" /\ op = "remove_max" /\ count(pre) >= 2)
      => /\ ret
         /\ result = BagMax(Stored(pre))
         /\ count(heap) = count(pre) - 1
         /\ Stored(heap) = BagDel(Stored(pre), BagMax(Stored(pre)))
         /\ Valid(heap)

\* ------------------------------------------------------- C38 (SpecLoop)
\* C38: on a heap of n elements that is not mutated, the forward loop ends
\* having read the positions 0, 1, ..., n - 1 once each in this order, and
\* the backward loop ends having read n - 1, ..., 0 once each; on an empty
\* heap both loops end without a round.
C38_LoopsReadEachOnce ==
    /\ [](phase = "forward done"
            => out = [i \in 1..count(heap) |-> i - 1])
    /\ [](phase = "backward done"
            => out = [i \in 1..count(heap) |-> count(heap) - i])
    /\ <>(phase \in {"forward done", "backward done"})

\* The backward loop over three elements has ended.
C38_Witness ==
    /\ phase = "backward done"
    /\ count(heap) = 3
    /\ out = <<2, 1, 0>>

\* ------------------------------------------------------- C39 (SpecAuto)
\* C39: in every state that new, insert, remove_min, remove_max, update_min,
\* update_max and clear reach (insert growing the storage, allocations
\* failing or not, no call of resize from outside), size <= capacity, and
\* every slot these operations and their float-up and float-down passes
\* read or write lies in a node below capacity.
C39_AutoGrowthStaysInside ==
    /\ heap.size <= heap.capacity
    /\ DOMAIN heap.buffer = 0..(heap.capacity - 1)
    /\ ~heap.oob

\* insert grew the storage of a heap whose only element was removed before,
\* and took the second node for a single element.
C39_Witness ==
    /\ op = "insert"
    /\ ret
    /\ capacity(heap) = 2
    /\ heap.size = 2
    /\ count(heap) = 1

\* ------------------------------------------------------ C40 (SpecClear)
\* What a caller sees of a heap: count and the results of min, max,
\* remove_min and remove_max.
Seen(h) ==
    <<count(h),
      min(h, Untouched).ret, min(h, Untouched).result,
      max(h, Untouched).ret, max(h, Untouched).result,
      remove_min(h, Untouched).ret, remove_min(h, Untouched).result,
      remove_max(h, Untouched).ret, remove_max(h, Untouched).result>>

\* C40: clear on any reachable heap sets count and size to 0 and keeps the
\* capacity, and from then on, whatever inserts and removals follow, count,
\* min, max, remove_min and remove_max give what they give on a fresh heap
\* of that capacity that received the same calls.
C40_ClearedIsFresh ==
    /\ op = "clear" => (count(heap) = 0 /\ heap.size = 0)
    /\ phase = "twin" => (capacity(heap) = capacity(other) /\ Seen(heap) = Seen(other))

====
